---- MODULE Spec2Model ----
(***************************************************************************)
(* ClearPath-Arduino-Pulse-Burst.ino: setup(), loop() and MoveCommand() as *)
(* a state machine whose steps are the sketch's digitalWrite and delay     *)
(* calls.  The pins are the sketch's output lines, the program counter is  *)
(* the statement about to run, and the logs are history variables that     *)
(* record the writes and delays the sketch has made.                       *)
(***************************************************************************)
EXTENDS Integers, Sequences, FiniteSets, TLC

\* ---------------------------------------------------------------- constants

\* Arduino levels (digitalWrite's second argument).
LOW == 0
HIGH == 1

\* Pin numbers, lines 60-67.
Enable == 6
Eneg == 7
InputA == 8
Aneg == 10
InputB == 9
Bneg == 11
Hneg == 5

\* Timing and direction configuration, lines 73-76.
DwellTime == 1000
HomeTime == 10000
MinAltPulse == 10

\* Width of the sketch's int (AVR boards: 16 bits).
IntBits == 16
INT_MIN == -(2 ^ (IntBits - 1))
INT_MAX == (2 ^ (IntBits - 1)) - 1

\* Largest magnitude of the small distances a single MoveCommand call is
\* tried with (beside INT_MIN).
MaxDist == 3

OutputPins == {Enable, Eneg, InputA, Aneg, InputB, Bneg, Hneg}

\* ------------------------------------------------------------- statements

\* digitalWrite(pin, level)
W(pin, level) == <<"write", pin, level>>
\* delay(ms)
D(ms) == <<"delay", ms>>
\* MoveCommand(distance, AltSpeed)
M(d, alt) == <<"move", d, alt>>
\* MoveCommand(distance): the declaration's default AltSpeed = 0
M1(d) == M(d, FALSE)

\* C6 mutant: the dwell between -10000 and 9000 alt moved between the chained
\* calls 9000 alt and -8000.
LoopProgramDwellInPair ==
  << M1(1000), D(DwellTime), M(-2000, TRUE), D(DwellTime),
     M1(3000), D(DwellTime), M1(-4000), D(DwellTime),
     M(5000, TRUE), D(DwellTime), M1(-6000), D(DwellTime),
     M1(7000), D(DwellTime), M(-8000, TRUE), D(DwellTime),
     M1(9000), D(DwellTime), M1(-10000),
     M(9000, TRUE), D(DwellTime), M1(-8000), D(DwellTime),
     M1(7000), M(-6000, TRUE), D(DwellTime),
     M1(5000), M1(-4000), D(DwellTime),
     M(3000, TRUE), M1(-2000), D(DwellTime),
     M1(1000), D(DwellTime) >>

\* C10 mutant: the last move repeats the first table half's +3000.
LoopProgramUnbalanced ==
  << M1(1000), D(DwellTime), M(-2000, TRUE), D(DwellTime),
     M1(3000), D(DwellTime), M1(-4000), D(DwellTime),
     M(5000, TRUE), D(DwellTime), M1(-6000), D(DwellTime),
     M1(7000), D(DwellTime), M(-8000, TRUE), D(DwellTime),
     M1(9000), D(DwellTime), M1(-10000), D(DwellTime),
     M(9000, TRUE), M1(-8000), D(DwellTime),
     M1(7000), M(-6000, TRUE), D(DwellTime),
     M1(5000), M1(-4000), D(DwellTime),
     M(3000, TRUE), M1(-2000), D(DwellTime),
     M1(3000), D(DwellTime) >>

\* The body of loop(), lines 125-158, one entry per statement.
LoopProgram ==
  << M1(1000), D(DwellTime), M(-2000, TRUE), D(DwellTime),
     M1(3000), D(DwellTime), M1(-4000), D(DwellTime),
     M(5000, TRUE), D(DwellTime), M1(-6000), D(DwellTime),
     M1(7000), D(DwellTime), M(-8000, TRUE), D(DwellTime),
     M1(9000), D(DwellTime), M1(-10000), D(DwellTime),
     M(9000, TRUE), M1(-8000), D(DwellTime),
     M1(7000), M(-6000, TRUE), D(DwellTime),
     M1(5000), M1(-4000), D(DwellTime),
     M(3000, TRUE), M1(-2000), D(DwellTime),
     M1(1000), D(DwellTime) >>

\* C8 mutant: the motor is enabled before the initial disable period.
SetupProgramEnableFirst ==
  << W(Enable, HIGH), D(DwellTime),
     W(Eneg, LOW), W(Aneg, LOW), W(Bneg, LOW), W(Hneg, LOW),
     W(InputA, LOW), W(InputB, LOW),
     W(Enable, LOW), D(HomeTime), D(DwellTime) >>

\* The output statements of setup(), lines 98-115.
SetupProgram ==
  << W(Enable, LOW), D(DwellTime),
     W(Eneg, LOW), W(Aneg, LOW), W(Bneg, LOW), W(Hneg, LOW),
     W(InputA, LOW), W(InputB, LOW),
     W(Enable, HIGH), D(HomeTime), D(DwellTime) >>

\* ------------------------------------------------------------------ state

VARIABLES
  stage,             \* "setup", "loop", or "call" (one MoveCommand call alone)
  ip,                \* index of the statement of setup()/loop() about to run
  mc,                \* position inside MoveCommand, "none" outside a call
  distance,          \* MoveCommand's parameter
  AltSpeed,          \* MoveCommand's parameter
  count,             \* the for loop's counter
  ReverseDirection,  \* the global of line 76, set at build time
  pin,               \* level of every output pin
  overflow,          \* what signed overflow does in this build, once seen
  \* history
  setupLog,          \* the writes and delays setup() has made
  callLog,           \* the current call's writes (InputB apart) and delays,
                     \* each with the number of InputB writes before it
  gapLog,            \* the writes and delays since the last completed pulse
  bWrites,           \* InputB writes of the current call
  pulses,            \* completed pulses (HIGH then LOW) of the current call
  enableAtEntry,     \* Enable's level when the current call was entered
  position           \* net pulses: +1 with InputA LOW, -1 with InputA HIGH

vars == <<stage, ip, mc, distance, AltSpeed, count, ReverseDirection, pin,
          overflow, setupLog, callLog, gapLog, bWrites, pulses,
          enableAtEntry, position>>

\* ------------------------------------------------------ pure computations

\* C3 mutant: MinAltPulse passed to delay without the factor 1.5.
AltDelayUnscaled == MinAltPulse

\* delay(MinAltPulse*1.5): the int times the double 1.5, truncated to delay's
\* unsigned long argument (lines 176 and 178).
AltDelay == (MinAltPulse * 15) \div 10

\* C2 mutant: ReverseDirection ignored.
DirLevelNoReverse(d, rev) == IF d < 0 THEN HIGH ELSE LOW

\* The condition of line 180 and the level written at lines 181/184.
DirLevel(d, rev) ==
  IF (d < 0 /\ ~rev) \/ (d > 0 /\ rev) THEN HIGH ELSE LOW

\* What signed overflow does is undefined: the build either wraps modulo
\* 2^IntBits or keeps the mathematical value in a wider register.  The first
\* overflow a run meets settles which.
Modes == IF overflow = "unseen" THEN {"wraps", "widens"} ELSE {overflow}

\* -x in the int type.
Neg(x, m) == IF x = INT_MIN /\ m = "wraps" THEN INT_MIN ELSE -x

\* Arduino's abs macro, ((x)>0?(x):-(x)), as used on line 187.
Abs(x, m) == IF x > 0 THEN x ELSE Neg(x, m)

\* count++ in the int type (line 187).
Inc(c, m) == IF c = INT_MAX /\ m = "wraps" THEN INT_MIN ELSE c + 1

\* C4 mutant: the blip made whatever AltSpeed is.
EntryAlwaysBlip(alt) == "alt_low"

\* if(AltSpeed), line 174: where MoveCommand starts.
Entry(alt) == IF alt THEN "alt_low" ELSE "dir"

\* The statement after statement i: setup() runs into loop(), and loop() is
\* called again when it returns.
NextStage(s, i) == IF s = "setup" /\ i = Len(SetupProgram) THEN "loop" ELSE s
NextIp(s, i) ==
  CASE s = "setup" -> IF i = Len(SetupProgram) THEN 1 ELSE i + 1
    [] s = "loop" -> IF i = Len(LoopProgram) THEN 1 ELSE i + 1
    [] OTHER -> i

\* ---------------------------------------------------------------- actions

\* A write or delay made inside MoveCommand, recorded in the histories.
Emit(e) ==
  /\ callLog' = Append(callLog, <<e, bWrites>>)
  /\ gapLog' = Append(gapLog, e)

\* One statement of setup(): a digitalWrite or a delay.
SetupStep ==
  /\ stage = "setup"
  /\ LET st == SetupProgram[ip]
     IN /\ pin' = IF st[1] = "write" THEN [pin EXCEPT ![st[2]] = st[3]] ELSE pin
        /\ setupLog' = Append(setupLog, st)
        /\ gapLog' = Append(gapLog, st)
  /\ stage' = NextStage(stage, ip)
  /\ ip' = NextIp(stage, ip)
  /\ UNCHANGED <<mc, distance, AltSpeed, count, ReverseDirection, overflow,
                 callLog, bWrites, pulses, enableAtEntry, position>>

\* A delay(DwellTime) statement of loop().
LoopDelay ==
  /\ stage = "loop" /\ mc = "none"
  /\ LoopProgram[ip][1] = "delay"
  /\ gapLog' = Append(gapLog, LoopProgram[ip])
  /\ ip' = NextIp(stage, ip)
  /\ UNCHANGED <<stage, mc, distance, AltSpeed, count, ReverseDirection, pin,
                 overflow, setupLog, callLog, bWrites, pulses, enableAtEntry,
                 position>>

\* A MoveCommand(...) statement of loop(): the call is entered.
LoopCall ==
  /\ stage = "loop" /\ mc = "none"
  /\ LoopProgram[ip][1] = "move"
  /\ distance' = LoopProgram[ip][2]
  /\ AltSpeed' = LoopProgram[ip][3]
  /\ mc' = Entry(LoopProgram[ip][3])
  /\ callLog' = <<>>
  /\ bWrites' = 0
  /\ pulses' = 0
  /\ enableAtEntry' = pin[Enable]
  /\ UNCHANGED <<stage, ip, count, ReverseDirection, pin, overflow, setupLog,
                 gapLog, position>>

\* digitalWrite(Enable,LOW), line 175.
McAltLow ==
  /\ mc = "alt_low"
  /\ pin' = [pin EXCEPT ![Enable] = LOW]
  /\ Emit(W(Enable, LOW))
  /\ mc' = "alt_delay1"
  /\ UNCHANGED <<stage, ip, distance, AltSpeed, count, ReverseDirection,
                 overflow, setupLog, bWrites, pulses, enableAtEntry,
                 position>>

\* delay(MinAltPulse*1.5), line 176.
McAltDelay1 ==
  /\ mc = "alt_delay1"
  /\ Emit(D(AltDelay))
  /\ mc' = "alt_high"
  /\ UNCHANGED <<stage, ip, distance, AltSpeed, count, ReverseDirection, pin,
                 overflow, setupLog, bWrites, pulses, enableAtEntry,
                 position>>

\* C9 mutant: the blip ends by writing Enable LOW.
McAltHighInverted ==
  /\ mc = "alt_high"
  /\ pin' = [pin EXCEPT ![Enable] = LOW]
  /\ Emit(W(Enable, LOW))
  /\ mc' = "alt_delay2"
  /\ UNCHANGED <<stage, ip, distance, AltSpeed, count, ReverseDirection,
                 overflow, setupLog, bWrites, pulses, enableAtEntry,
                 position>>

\* digitalWrite(Enable, HIGH), line 177.
McAltHigh ==
  /\ mc = "alt_high"
  /\ pin' = [pin EXCEPT ![Enable] = HIGH]
  /\ Emit(W(Enable, HIGH))
  /\ mc' = "alt_delay2"
  /\ UNCHANGED <<stage, ip, distance, AltSpeed, count, ReverseDirection,
                 overflow, setupLog, bWrites, pulses, enableAtEntry,
                 position>>

\* delay(MinAltPulse*1.5), line 178.
McAltDelay2 ==
  /\ mc = "alt_delay2"
  /\ Emit(D(AltDelay))
  /\ mc' = "dir"
  /\ UNCHANGED <<stage, ip, distance, AltSpeed, count, ReverseDirection, pin,
                 overflow, setupLog, bWrites, pulses, enableAtEntry,
                 position>>

\* The if/else of lines 180-185, and the for statement's int count=0.
McDir ==
  /\ mc = "dir"
  /\ LET lvl == DirLevel(distance, ReverseDirection)
     IN /\ pin' = [pin EXCEPT ![InputA] = lvl]
        /\ Emit(W(InputA, lvl))
  /\ count' = 0
  /\ mc' = "test"
  /\ UNCHANGED <<stage, ip, distance, AltSpeed, ReverseDirection, overflow,
                 setupLog, bWrites, pulses, enableAtEntry, position>>

\* count<abs(distance), line 187: into the body, or out of the loop and back
\* to the caller.
McTest ==
  /\ mc = "test"
  /\ \E m \in Modes :
       /\ overflow' = IF distance = INT_MIN THEN m ELSE overflow
       /\ IF count < Abs(distance, m)
            THEN mc' = "high" /\ UNCHANGED <<stage, ip>>
            ELSE mc' = "none" /\ stage' = NextStage(stage, ip)
                              /\ ip' = NextIp(stage, ip)
  /\ UNCHANGED <<distance, AltSpeed, count, ReverseDirection, pin, setupLog,
                 callLog, gapLog, bWrites, pulses, enableAtEntry,
                 position>>

\* digitalWrite(InputB, HIGH), line 188: the pulse's rising edge, counted in
\* the direction InputA holds.
McHigh ==
  /\ mc = "high"
  /\ pin' = [pin EXCEPT ![InputB] = HIGH]
  /\ bWrites' = bWrites + 1
  /\ position' = position + (IF pin[InputA] = LOW THEN 1 ELSE -1)
  /\ mc' = "low"
  /\ UNCHANGED <<stage, ip, distance, AltSpeed, count, ReverseDirection,
                 overflow, setupLog, callLog, gapLog, pulses, enableAtEntry>>

\* C5 mutant: the direction line is released (written LOW) after every pulse.
McLowReleasesDir ==
  /\ mc = "low"
  /\ pin' = [pin EXCEPT ![InputB] = LOW, ![InputA] = LOW]
  /\ callLog' = Append(callLog, <<W(InputA, LOW), bWrites + 1>>)
  /\ gapLog' = <<W(InputA, LOW)>>
  /\ pulses' = pulses + 1
  /\ bWrites' = bWrites + 1
  /\ \E m \in Modes :
       /\ overflow' = IF count = INT_MAX THEN m ELSE overflow
       /\ count' = Inc(count, m)
  /\ mc' = "test"
  /\ UNCHANGED <<stage, ip, distance, AltSpeed, ReverseDirection, setupLog,
                 enableAtEntry, position>>

\* digitalWrite(InputB, LOW), line 189, right after the HIGH write of line
\* 188: one pulse is complete.  Then the for statement's count++.
McLow ==
  /\ mc = "low"
  /\ pin' = [pin EXCEPT ![InputB] = LOW]
  /\ gapLog' = <<>>
  /\ pulses' = pulses + 1
  /\ bWrites' = bWrites + 1
  /\ \E m \in Modes :
       /\ overflow' = IF count = INT_MAX THEN m ELSE overflow
       /\ count' = Inc(count, m)
  /\ mc' = "test"
  /\ UNCHANGED <<stage, ip, distance, AltSpeed, ReverseDirection, setupLog,
                 callLog, enableAtEntry, position>>

\* ---------------------------------------------------------- specifications

Distances == {INT_MIN} \cup (-MaxDist .. MaxDist)

\* The sketch after the pinMode calls of setup(): every output pin is at its
\* reset level, LOW.
Init ==
  /\ stage = "setup" /\ ip = 1 /\ mc = "none"
  /\ distance = 0 /\ AltSpeed = FALSE /\ count = 0
  /\ ReverseDirection \in BOOLEAN
  /\ pin = [p \in OutputPins |-> LOW]
  /\ overflow = "unseen"
  /\ setupLog = <<>> /\ callLog = <<>> /\ gapLog = <<>>
  /\ bWrites = 0 /\ pulses = 0
  /\ enableAtEntry = LOW /\ position = 0

Next ==
  \/ SetupStep
  \/ LoopDelay
  \/ LoopCall
  \/ McAltLow
  \/ McAltDelay1
  \/ McAltHigh
  \/ McAltDelay2
  \/ McDir
  \/ McTest
  \/ McHigh
  \/ McLow

Spec == Init /\ [][Next]_vars

\* One MoveCommand(distance, AltSpeed) call on its own, entered with any
\* arguments, either ReverseDirection and any levels on Enable and InputA.
InitCall ==
  /\ stage = "call" /\ ip = 0
  /\ distance \in Distances /\ AltSpeed \in BOOLEAN /\ count = 0
  /\ mc = Entry(AltSpeed)
  /\ ReverseDirection \in BOOLEAN
  /\ \E en \in {LOW, HIGH}, a \in {LOW, HIGH} :
       /\ pin = [p \in OutputPins |->
                   IF p = Enable THEN en ELSE IF p = InputA THEN a ELSE LOW]
       /\ enableAtEntry = en
  /\ overflow = "unseen"
  /\ setupLog = <<>> /\ callLog = <<>> /\ gapLog = <<>>
  /\ bWrites = 0 /\ pulses = 0 /\ position = 0

NextCall ==
  \/ McAltLow
  \/ McAltDelay1
  \/ McAltHigh
  \/ McAltDelay2
  \/ McDir
  \/ McTest
  \/ McHigh
  \/ McLow

SpecCall == InitCall /\ [][NextCall]_vars

\* ------------------------------------------------------------ properties

\* The call under way has returned (a call on its own), or is past line 185.
Returned == stage = "call" /\ mc = "none"
PastDir == mc \in {"test", "high", "low"} \/ Returned

IsWrite(e, p) == e[1] = "write" /\ e[2] = p
IsDelay(e) == e[1] = "delay"

\* The current call's writes to pin p, each with the InputB writes before it.
WritesTo(p) == SelectSeq(callLog, LAMBDA x : IsWrite(x[1], p))
DelaysOfCall == SelectSeq(callLog, LAMBDA x : IsDelay(x[1]))

\* C1: a call of MoveCommand(distance, AltSpeed) that has returned has emitted
\* exactly |distance| pulses, each one HIGH write followed by one LOW write
\* of InputB, for every int distance, 0 and INT_MIN included.
C1_PulsesEqualMagnitude ==
  Returned =>
    /\ pulses = (IF distance < 0 THEN -distance ELSE distance)
    /\ bWrites = 2 * pulses

\* C1, without INT_MIN: the count is right for every distance whose negation
\* fits the int type.
C1_PulsesEqualMagnitudeInRange ==
  (Returned /\ distance # INT_MIN) =>
    /\ pulses = (IF distance < 0 THEN -distance ELSE distance)
    /\ bWrites = 2 * pulses

\* C2: every call writes InputA exactly once, before any write of InputB; the
\* level is HIGH exactly when (distance < 0 and not ReverseDirection) or
\* (distance > 0 and ReverseDirection); so the other setting of
\* ReverseDirection gives the other level for every nonzero distance, and
\* distance 0 gives LOW under both.
C2_DirectionWrite ==
  LET aw == WritesTo(InputA)
      level == IF \/ (distance < 0 /\ ~ReverseDirection)
                  \/ (distance > 0 /\ ReverseDirection)
               THEN HIGH ELSE LOW
  IN /\ PastDir =>
          /\ Len(aw) = 1
          /\ aw[1] = <<W(InputA, level), 0>>
          /\ pin[InputA] = level
          /\ distance = 0 => pin[InputA] = LOW
          /\ distance # 0 =>
               (pin[InputA] = HIGH <=> ((distance < 0) # ReverseDirection))
     /\ ~PastDir => Len(aw) = 0
     /\ \A d \in Distances \ {0} : DirLevel(d, TRUE) # DirLevel(d, FALSE)
     /\ DirLevel(0, TRUE) = LOW /\ DirLevel(0, FALSE) = LOW

\* C2 witness: a reversed-direction call with a negative distance has
\* returned with InputA LOW, having been entered with InputA HIGH.
C2_Witness ==
  /\ Returned /\ distance < 0 /\ ReverseDirection
  /\ pulses > 0 /\ pin[InputA] = LOW
  /\ WritesTo(InputA) = << <<W(InputA, LOW), 0>> >>

\* C3: with AltSpeed true the call writes Enable LOW, delays 15, writes Enable
\* HIGH, delays 15 (MinAltPulse*1.5 with MinAltPulse = 10), nothing in
\* between, and all four are done before the InputA write and before any
\* write of InputB.
C3_AltBlip ==
  LET blip == << <<W(Enable, LOW), 0>>, <<D(15), 0>>,
                 <<W(Enable, HIGH), 0>>, <<D(15), 0>> >>
      done == CASE mc = "alt_low" -> 0
                [] mc = "alt_delay1" -> 1
                [] mc = "alt_high" -> 2
                [] mc = "alt_delay2" -> 3
                [] mc = "dir" -> 4
                [] OTHER -> 5
  IN (AltSpeed /\ (stage = "call" \/ mc # "none")) =>
       /\ Len(callLog) = done
       /\ \A i \in 1 .. Len(callLog) : i <= 4 => callLog[i] = blip[i]
       /\ done < 5 => bWrites = 0
       /\ done = 5 => /\ IsWrite(callLog[5][1], InputA)
                      /\ callLog[5][2] = 0
       /\ done >= 3 => pin[Enable] = HIGH
       /\ done \in {1, 2} => pin[Enable] = LOW

\* C3 witness: an alt-speed call has returned after pulsing.
C3_Witness ==
  /\ Returned /\ AltSpeed /\ pulses > 0 /\ enableAtEntry = HIGH
  /\ Len(callLog) = 5

\* C4: with AltSpeed false the call writes Enable never and delays never;
\* Enable keeps the level it had on entry, for every distance.
C4_EnableUntouched ==
  (~AltSpeed /\ (stage = "call" \/ mc # "none")) =>
    /\ pin[Enable] = enableAtEntry
    /\ Len(WritesTo(Enable)) = 0
    /\ Len(DelaysOfCall) = 0

\* C4 witness: a call without alt speed, entered with Enable LOW, has
\* returned after pulsing, Enable still LOW.
C4_Witness ==
  /\ Returned /\ ~AltSpeed /\ pulses > 0
  /\ enableAtEntry = LOW /\ pin[Enable] = LOW

\* C5: from the first InputB write of a call on, InputA holds the level the
\* call wrote before that first write, and the call writes InputA at no
\* other time.
C5_DirectionStable ==
  LET aw == WritesTo(InputA)
  IN (stage = "loop" /\ bWrites > 0) =>
       /\ Len(aw) >= 1
       /\ \A i \in 1 .. Len(aw) : aw[i][2] = 0
       /\ pin[InputA] = aw[1][1][3]
       /\ Len(aw) = 1

\* C5 witness: in loop(), in the middle of a pulse train with InputA HIGH.
C5_Witness ==
  /\ stage = "loop" /\ mc = "low" /\ pulses > 0
  /\ pin[InputA] = HIGH /\ pin[InputB] = HIGH

\* The state right after the first InputB write (the first pulse's rising
\* edge) of the call at statement i of loop(): gapLog then holds all that
\* happened since the last pulse of the call before.
FirstEdgeOf(i) == stage = "loop" /\ ip = i /\ mc = "low" /\ bWrites = 1

\* C6 as stated: at the first pulse of the second call of each pair without a
\* dwell (statements 22, 25, 28 and 31 of loop(): -8000, -6000 alt, -4000,
\* -2000), nothing but the direction write has happened since the last
\* pulse of the first call: no delay, no Enable write.
C6_ChainedGapOnlyDirection ==
  \A i \in {22, 25, 28, 31} :
    FirstEdgeOf(i) =>
      /\ Len(gapLog) = 1
      /\ IsWrite(gapLog[1], InputA)

\* C6 amended: that holds of the three pairs whose second call has AltSpeed
\* false (9000 alt then -8000, 5000 then -4000, 3000 alt then -2000).  For
\* 7000 then -6000 alt there is no delay(DwellTime), but the second call's
\* alt-speed blip (Enable LOW, delay 15, Enable HIGH, delay 15) lies between
\* the two pulse trains, before the direction write.
C6_ChainedGap ==
  /\ \A i \in {22, 28, 31} :
       FirstEdgeOf(i) =>
         /\ ~AltSpeed
         /\ Len(gapLog) = 1
         /\ IsWrite(gapLog[1], InputA)
  /\ FirstEdgeOf(25) =>
       /\ AltSpeed /\ distance = -6000
       /\ Len(gapLog) = 5
       /\ SubSeq(gapLog, 1, 4) =
            <<W(Enable, LOW), D(15), W(Enable, HIGH), D(15)>>
       /\ IsWrite(gapLog[5], InputA)

\* C6 witness: the first pulse of -6000 alt, right after the train of 7000.
C6_Witness ==
  /\ FirstEdgeOf(25) /\ distance = -6000 /\ AltSpeed
  /\ Len(gapLog) = 5 /\ pin[InputB] = HIGH

\* The header comment's move table, lines 37-51: distance and alt-speed flag
\* of each entry, in order.
MoveTable ==
  << <<10, FALSE>>, <<-20, TRUE>>, <<30, FALSE>>, <<-40, FALSE>>,
     <<50, TRUE>>, <<-60, FALSE>>, <<70, FALSE>>, <<-80, TRUE>>,
     <<90, FALSE>>, <<-100, FALSE>>, <<90, TRUE>>, <<-80, FALSE>>,
     <<70, FALSE>>, <<-60, TRUE>>, <<50, FALSE>>, <<-40, FALSE>>,
     <<30, TRUE>>, <<-20, FALSE>>, <<10, FALSE>> >>

\* The entries that follow a '-->' in the table.
ChainedEntries == {12, 14, 16, 18}

\* The number of MoveCommand statements among the first i of loop().
CallNumber(i) == Cardinality({j \in 1 .. i : LoopProgram[j][1] = "move"})

\* What lies between the last pulse and the entry of the k-th call: one
\* delay(DwellTime) before a table row (after setup() for the very first),
\* nothing inside a '-->' row.
DwellsAsTable(k) ==
  IF k \in ChainedEntries
  THEN gapLog = <<>>
  ELSE /\ gapLog # <<>>
       /\ gapLog[Len(gapLog)] = D(DwellTime)
       /\ k # 1 => gapLog = <<D(DwellTime)>>

\* C7: the k-th MoveCommand call of loop() has the distance and the
\* alt-speed flag of the k-th entry of the move table, and the dwells are
\* the table's rows.
C7_MovesAreTable ==
  (stage = "loop" /\ mc # "none") =>
    LET k == CallNumber(ip)
    IN /\ k \in 1 .. Len(MoveTable)
       /\ distance = MoveTable[k][1]
       /\ AltSpeed = MoveTable[k][2]
       /\ callLog = <<>> => DwellsAsTable(k)

\* C7 up to scale: the calls are the table's entries times 100.
C7_MovesAreTableTimes100 ==
  (stage = "loop" /\ mc # "none") =>
    LET k == CallNumber(ip)
    IN /\ k \in 1 .. Len(MoveTable)
       /\ distance = 100 * MoveTable[k][1]
       /\ AltSpeed = MoveTable[k][2]
       /\ (callLog = <<>> /\ bWrites = 0) => DwellsAsTable(k)

\* C8: setup() writes Enable LOW, delays DwellTime, writes Eneg, Aneg, Bneg,
\* Hneg LOW, writes InputA and InputB LOW, writes Enable HIGH, delays
\* HomeTime, delays DwellTime, in that order; MoveCommand is not entered and
\* no pulse is made before all of it is done.
C8_SetupOrder ==
  LET order == << W(Enable, LOW), D(DwellTime),
                  W(Eneg, LOW), W(Aneg, LOW), W(Bneg, LOW), W(Hneg, LOW),
                  W(InputA, LOW), W(InputB, LOW),
                  W(Enable, HIGH), D(HomeTime), D(DwellTime) >>
  IN /\ stage = "setup" =>
          /\ ip \in 1 .. Len(order)
          /\ setupLog = SubSeq(order, 1, ip - 1)
          /\ mc = "none" /\ bWrites = 0 /\ pulses = 0 /\ position = 0
          /\ pin[InputB] = LOW
     /\ stage = "loop" => setupLog = order
     /\ (stage = "loop" /\ setupLog # gapLog /\ Len(gapLog) >= Len(order)) =>
          /\ SubSeq(gapLog, 1, Len(order)) = order
          /\ bWrites <= 1

\* C8 witness: the first pulse ever; since reset, all of setup() and the
\* first call's direction write have happened, and nothing else.
C8_Witness ==
  /\ FirstEdgeOf(1) /\ Len(gapLog) = 12
  /\ SubSeq(gapLog, 1, 11) = setupLog
  /\ pin[Enable] = HIGH /\ pin[InputB] = HIGH

\* C9: Enable is HIGH at every InputB write of MoveCommand and on return from
\* every call; Enable is LOW only in setup() up to its Enable HIGH write and
\* in the first half of an alt-speed blip, where InputB is LOW and not being
\* written.
C9_EnabledWhilePulsing ==
  /\ mc \in {"test", "high", "low"} => pin[Enable] = HIGH
  /\ (stage = "loop" /\ mc = "none") => pin[Enable] = HIGH
  /\ pin[Enable] = LOW =>
       /\ \/ (stage = "setup" /\ ip <= 9)
          \/ (stage = "loop" /\ mc \in {"alt_delay1", "alt_high"})
       /\ pin[InputB] = LOW
       /\ bWrites = 0

\* C9 witness: pulsing in an alt-speed call, after the blip, Enable HIGH.
C9_Witness ==
  /\ stage = "loop" /\ mc = "low" /\ AltSpeed /\ pulses > 0
  /\ pin[Enable] = HIGH /\ pin[InputB] = HIGH

\* C10: the net pulse count (+1 with InputA LOW, -1 with InputA HIGH) is 0 at
\* the start of every loop() iteration, as at the end of setup(), and stays
\* within -5000 .. 5000 throughout, under both settings of ReverseDirection.
C10_PositionBalanced ==
  /\ position \in -5000 .. 5000
  /\ (stage = "loop" /\ ip = 1 /\ mc = "none") => position = 0
  /\ stage = "setup" => position = 0

\* C10 witness: a later iteration of loop() is about to start (the last move
\* of an iteration has been made), reversed direction, position back at 0.
C10_Witness ==
  /\ stage = "loop" /\ ip = 1 /\ mc = "none" /\ pulses = 1000
  /\ ReverseDirection /\ position = 0

\* C10, the extremes: the position reaches both ends of the range.
C10_ReachesTop == position = 5000
C10_ReachesBottom == position = -5000

====
